---- MODULE Spec2Model ----
(***************************************************************************)
(* A model of the duplicate-file scanners of find_duplicate_files:         *)
(*   find_duplicate_files.py  (parallel scan, "Cache" exclusion, JSON)     *)
(*   find_files_parallel.py   (parallel scan, prints the groups)           *)
(*   find_files.py            (sequential scan, JSON)                      *)
(* Strings that the code inspects (paths, file contents) are sequences of  *)
(* one-character strings, so that os.path.join, the substring test         *)
(* "Cache" in dirpath and the block-wise read are computed, not assumed.   *)
(***************************************************************************)
EXTENDS Integers, Sequences, FiniteSets, TLC

VARIABLES
    prog,         \* which script is run
    argv,         \* sys.argv[1:], the directory arguments
    content,      \* file system: path -> bytes of the regular file
    unreadable,   \* file system: paths whose open()/read() raises
    ownerFails,   \* file system: paths whose owner lookup raises
    statFails,    \* file system: paths whose size/time lookup raises after the scan
    disk,         \* the file at output_file ('duplicates.json')
    run,          \* number of the current invocation (1-based)
    pc,           \* position of the main thread
    directories,  \* main's local variable (unbound until assigned)
    pool,         \* the ProcessPoolExecutor: "none", "alive", "shutdown"
    todo,         \* what the enumeration (os.walk comprehension) still yields
    futures,      \* future_to_file, in submission order
    hashes,       \* the defaultdict(list), in insertion order
    duplicates,   \* the list of groups built after the scan
    stdout,       \* what was printed
    exitStatus,   \* the process's exit status, meaningful when pc = "exit"
    yielded,      \* observer: the (file_hash, full_path) pairs the scanner yielded
    consumed,     \* observer: the futures the as_completed loop received, in order
    old,          \* observer: which output file this invocation found
    prev          \* observer: what the previous invocation reported

vars == <<prog, argv, content, unreadable, ownerFails, statFails, disk, run, pc, directories, pool,
          todo, futures, hashes, duplicates, stdout, exitStatus, yielded,
          consumed, old, prev>>

(***************************************************************************)
(* Bounds of the model.                                                    *)
(***************************************************************************)
MaxWorkers == 2       \* os.cpu_count(): the default pool size
MaxUnreadable == 1    \* how many files may be unreadable
MaxRuns == 2          \* how many times the script is invoked in a row

(***************************************************************************)
(* Strings.                                                                *)
(***************************************************************************)
Sep == "/"
Str_Cache == <<"C", "a", "c", "h", "e">>
Str_hello == <<"h", "e", "l", "l", "o">>
Str_world == <<"w", "o", "r", "l", "d">>

\* os.path.join(a, b) for a relative b
join(a, b) == a \o <<Sep>> \o b

\* Python's  sub in s  on strings
StrIn(sub, s) ==
    \E i \in 0..(Len(s) - Len(sub)) : SubSeq(s, i + 1, i + Len(sub)) = sub

Min(a, b) == IF a < b THEN a ELSE b

(***************************************************************************)
(* The directory tree that is scanned.                                     *)
(*   A/x  A/y  A/Cache/c  A/Cache/s/d  B/z  B/w  E/ (empty)                *)
(***************************************************************************)
DirA == <<"A">>
DirB == <<"B">>
DirE == <<"E">>
DirCache == join(DirA, Str_Cache)
DirS == join(DirCache, <<"s">>)

Dirs == {DirA, DirB, DirE, DirCache, DirS}

\* os.scandir as os.walk uses it: the subdirectories and the regular files
listdir(d) ==
    CASE d = DirA     -> [dirnames |-> <<Str_Cache>>, filenames |-> << <<"x">>, <<"y">> >>]
      [] d = DirCache -> [dirnames |-> << <<"s">> >>, filenames |-> << <<"c">> >>]
      [] d = DirS     -> [dirnames |-> <<>>, filenames |-> << <<"d">> >>]
      [] d = DirB     -> [dirnames |-> <<>>, filenames |-> << <<"z">>, <<"w">> >>]
      [] OTHER        -> [dirnames |-> <<>>, filenames |-> <<>>]

FileX == join(DirA, <<"x">>)
FileY == join(DirA, <<"y">>)
FileC == join(DirCache, <<"c">>)
FileD == join(DirS, <<"d">>)
FileZ == join(DirB, <<"z">>)
FileW == join(DirB, <<"w">>)

Files == {FileX, FileY, FileC, FileD, FileZ, FileW}
Contents == {Str_hello, Str_world}

\* The files that may be unreadable: a sibling of A/x, a file of B, an excluded file
MayFail == {FileY, FileZ, FileD}

\* The argument lists tried: none, an empty tree, one tree, the same directory
\* twice, a root inside an excluded directory, and the A/B scenario
ArgChoices == {<<>>, <<DirE>>, <<DirA>>, <<DirB, DirB>>, <<DirS>>}
ScenarioArgs == <<DirA, DirB>>

FDF == "find_duplicate_files.py"
FFP == "find_files_parallel.py"
FF  == "find_files.py"

(***************************************************************************)
(* os.walk(top), top-down, not following links: one triple per directory,  *)
(* the directory itself first, then its subdirectories in listing order.   *)
(***************************************************************************)
RECURSIVE walk(_)
RECURSIVE walkSubdirs(_, _, _)
walk(top) ==
    IF top \notin Dirs THEN <<>>
    ELSE LET l == listdir(top)
         IN  <<[dirpath |-> top, dirnames |-> l.dirnames, filenames |-> l.filenames]>>
             \o walkSubdirs(top, l.dirnames, 1)

walkSubdirs(top, dirnames, i) ==
    IF i > Len(dirnames) THEN <<>>
    ELSE walk(join(top, dirnames[i])) \o walkSubdirs(top, dirnames, i + 1)

\* for directory in directories for dirpath, dirnames, filenames in os.walk(directory)
RECURSIVE walkAll(_, _)
walkAll(dirs, i) ==
    IF i > Len(dirs) THEN <<>> ELSE walk(dirs[i]) \o walkAll(dirs, i + 1)

\* faulty variant: only a directory that is itself named Cache is skipped
Basename(d) ==
    LET seps == {k \in 1..Len(d) : d[k] = Sep}
        start == IF seps = {} THEN 1 ELSE (CHOOSE k \in seps : \A j \in seps : j <= k) + 1
    IN  SubSeq(d, start, Len(d))
NotCache_Basename(dirpath) == Basename(dirpath) # Str_Cache

\* find_duplicate_files.py: if "Cache" not in dirpath
NotCache(dirpath) == ~StrIn(Str_Cache, dirpath)

\* faulty variant: both parallel scanners apply the exclusion
Keep_Parallel(p, dirpath) == IF p \in {FDF, FFP} THEN NotCache(dirpath) ELSE TRUE

\* the filter of the comprehension: only find_duplicate_files.py has one
Keep(p, dirpath) == IF p = FDF THEN NotCache(dirpath) ELSE TRUE

\* ... for filename in filenames: the (filename, dirpath) pairs in order
RECURSIVE enumerate(_, _, _)
enumerate(p, triples, i) ==
    IF i > Len(triples) THEN <<>>
    ELSE (IF Keep(p, triples[i].dirpath)
          THEN [k \in 1..Len(triples[i].filenames) |->
                   [filename |-> triples[i].filenames[k], dirpath |-> triples[i].dirpath]]
          ELSE <<>>)
         \o enumerate(p, triples, i + 1)

Enumerated(p, dirs) == enumerate(p, walkAll(dirs, 1), 1)

(***************************************************************************)
(* calculate_hash: sha256 over the file read in blocks.                    *)
(***************************************************************************)
block_size == 65536

\* f.read(n) at offset pos
Read(bytes, pos, n) == SubSeq(bytes, pos + 1, Min(pos + n, Len(bytes)))

\* buffer = f.read(block_size); while buffer: hasher.update(buffer); ...
RECURSIVE HashLoop(_, _, _)
HashLoop(bytes, pos, acc) ==
    LET buffer == Read(bytes, pos, block_size)
    IN  IF buffer = <<>> THEN acc
        ELSE HashLoop(bytes, pos + Len(buffer), acc \o buffer)

\* hasher.hexdigest(): sha256 taken as collision-free, so the digest stands
\* for the bytes that were fed to the hasher
hexdigest(fed) == [kind |-> "digest", hex |-> fed]
ResNone  == [kind |-> "None", hex |-> <<>>]
ResRaise == [kind |-> "raise", hex |-> <<>>]
ResUnset == [kind |-> "unset", hex |-> <<>>]
\* the future holds BrokenProcessPool: a worker process of the pool died
ResBroken == [kind |-> "broken", hex |-> <<>>]

\* future.result() re-raises the exception the future holds
Raises(result) == result.kind \in {"raise", "broken"}

\* find_files.py and find_files_parallel.py: no try/except, the error escapes
calculate_hash_plain(file_path) ==
    IF file_path \in unreadable THEN ResRaise
    ELSE hexdigest(HashLoop(content[file_path], 0, <<>>))

\* faulty variant: the try/except is missing, as in the other two scripts
calculate_hash_NoExcept(file_path) == calculate_hash_plain(file_path)

\* find_duplicate_files.py: except Exception -> log, return None
calculate_hash(file_path) ==
    IF file_path \in unreadable THEN ResNone
    ELSE hexdigest(HashLoop(content[file_path], 0, <<>>))

HashOf(p, file_path) ==
    IF p = FDF THEN calculate_hash(file_path) ELSE calculate_hash_plain(file_path)

(***************************************************************************)
(* get_file_metadata                                                       *)
(***************************************************************************)
\* round(os.path.getsize(p) / (1024 * 1024), 4), in units of 0.0001 MB
Length_MB(bytes) == (2 * 10000 * bytes + 1024 * 1024) \div (2 * 1024 * 1024)

\* what win32security's lookups do for the file: an owner, or an exception
LookupAccountSid(file_path) ==
    IF file_path \in ownerFails
    THEN [raised |-> TRUE, value |-> <<"pywintypes.error">>]
    ELSE [raised |-> FALSE, value |-> <<"DOMAIN", "name">>]

\* f"Owner Info Not Available: {str(e)}"
OwnerNotAvailable(e) == <<"Owner Info Not Available: ">> \o e

\* the exception that os.path.getsize / getmtime / getctime let escape
MetaRaise == [raise |-> "OSError"]

\* faulty variant: the owner lookup is not guarded, its exception escapes
file_owner_NoExcept(lookup) ==
    [raised |-> lookup.raised,
     value  |-> IF lookup.raised THEN lookup.value
                ELSE <<lookup.value[1], "\\", lookup.value[2]>>]

\* try: ... file_owner = f"{domain}\\{name}"  except Exception as e: file_owner = ...
\* the outcome of the try statement: it never raises
file_owner(lookup) ==
    [raised |-> FALSE,
     value  |-> IF lookup.raised THEN OwnerNotAvailable(lookup.value)
                ELSE <<lookup.value[1], "\\", lookup.value[2]>>]

\* the three os.path calls come first and are outside the try; an exception
\* of any statement that is not guarded leaves the function
get_file_metadata(file_path) ==
    IF file_path \in statFails THEN MetaRaise
    ELSE IF file_owner(LookupAccountSid(file_path)).raised THEN MetaRaise
    ELSE [Length_MB     |-> Length_MB(Len(content[file_path])),
          LastWriteTime |-> "mtime",
          CreationTime  |-> "ctime",
          FileOwner     |-> file_owner(LookupAccountSid(file_path)).value]

(***************************************************************************)
(* The fold and the grouping of export_duplicates_to_json.                 *)
(***************************************************************************)
HashIndex(hs, h) ==
    IF \E i \in 1..Len(hs) : hs[i].hash = h
    THEN CHOOSE i \in 1..Len(hs) : hs[i].hash = h
    ELSE 0

\* faulty variant: a path joins only the list that received the previous result (a
\* grouping of adjacent results, as itertools.groupby does on an unsorted stream)
HashesAppend_Adjacent(hs, h, full_path) ==
    IF hs # <<>> /\ hs[Len(hs)].hash = h
    THEN [hs EXCEPT ![Len(hs)].files = Append(@, full_path)]
    ELSE Append(hs, [hash |-> h, files |-> <<full_path>>])

\* hashes[file_hash].append(full_path) on a defaultdict(list)
HashesAppend(hs, h, full_path) ==
    LET i == HashIndex(hs, h)
    IN  IF i = 0 THEN Append(hs, [hash |-> h, files |-> <<full_path>>])
        ELSE [hs EXCEPT ![i].files = Append(@, full_path)]

\* faulty variant: every fingerprint of the map is taken for a group
IsGroup_NonEmpty(files) == Len(files) > 0

\* if len(files) > 1
IsGroup(files) == Len(files) > 1

\* for file in files: files_with_metadata.append({"path": ..., "metadata": ...})
WithMetadata(files) ==
    [k \in 1..Len(files) |-> [path |-> files[k], metadata |-> get_file_metadata(files[k])]]

\* for files in hashes.values(): if len(files) > 1: duplicates.append(...)
RECURSIVE CollectGroups(_, _)
CollectGroups(hs, i) ==
    IF i > Len(hs) THEN <<>>
    ELSE (IF IsGroup(hs[i].files) THEN <<WithMetadata(hs[i].files)>> ELSE <<>>)
         \o CollectGroups(hs, i + 1)

\* faulty variant: the labels are numbered from 0
GroupLabel_ZeroBased(index) == index

\* the number in f"Duplicate Group {index + 1}"
GroupLabel(index) == index + 1

\* {f"Duplicate Group {index + 1}": files for index, files in enumerate(duplicates)}
\* a mapping from the number N of the label "Duplicate Group N" to the group
Indexed(dups) ==
    [n \in {GroupLabel(index) : index \in 0..(Len(dups) - 1)} |-> dups[n - GroupLabel(0) + 1]]

(***************************************************************************)
(* The output file.                                                        *)
(***************************************************************************)
Absent == [kind |-> "absent", writer |-> 0, report |-> <<>>]
\* a complete report left by an invocation before the first one modelled
Stale == [kind |-> "complete", writer |-> 0, report |-> <<>>]

Exists(d) == d.kind # "absent"

\* which file an invocation found at output_file: its kind and who wrote it
Found(d) == [kind |-> d.kind, writer |-> d.writer]

Unbound == <<"unbound">>

(***************************************************************************)
(* Initial states: the script, its arguments and the file system.          *)
(***************************************************************************)
FileSystems ==
    {c \in [Files -> Contents] :
        c[FileX] = Str_hello /\ c[FileC] = Str_hello /\ c[FileD] = Str_hello}

InitRun ==
    /\ run = 1
    /\ pc = "main"
    /\ directories = Unbound
    /\ pool = "none"
    /\ todo = <<>>
    /\ futures = <<>>
    /\ hashes = <<>>
    /\ duplicates = <<>>
    /\ stdout = <<>>
    /\ exitStatus = 0
    /\ yielded = <<>>
    /\ consumed = <<>>
    /\ old = Found(disk)
    /\ prev = [valid |-> FALSE, labels |-> <<>>, groups |-> {}, yields |-> <<>>]

InitInputs ==
    /\ content \in FileSystems
    /\ unreadable \in {u \in SUBSET MayFail : Cardinality(u) <= MaxUnreadable}
    /\ disk \in {Absent, Stale}

\* every metadata lookup succeeds
MetadataAvailable ==
    /\ ownerFails = {}
    /\ statFails = {}

Init ==
    /\ prog = FDF
    /\ argv \in ArgChoices \cup {ScenarioArgs}
    /\ InitInputs
    /\ MetadataAvailable
    /\ InitRun

(***************************************************************************)
(* The worker pool (concurrent.futures.ProcessPoolExecutor).               *)
(***************************************************************************)
inputs == <<prog, argv, content, unreadable, ownerFails, statFails>>

\* ProcessPoolExecutor(): max_workers defaults to the number of processors
max_workers == MaxWorkers

Running == {i \in 1..Len(futures) : futures[i].state = "running"}
Pending == {i \in 1..Len(futures) : futures[i].state = "pending"}

\* faulty variant: one process per submitted call, whatever the pool size
WorkerFree_Unbounded == TRUE

\* a worker process is free to take the next call from the queue
WorkerFree == Cardinality(Running) < max_workers

\* the call queue is first in, first out
NextCall == CHOOSE i \in Pending : \A j \in Pending : i <= j

FullPath(f) == join(f.dirpath, f.filename)

\* a worker process takes a call and starts calculate_hash on it
WorkerStart ==
    /\ pool = "alive"
    /\ Pending # {}
    /\ WorkerFree
    /\ futures' = [futures EXCEPT ![NextCall].state = "running"]
    /\ UNCHANGED <<inputs, disk, run, pc, directories, pool, todo, hashes,
                   duplicates, stdout, exitStatus, yielded, consumed, old, prev>>

\* calculate_hash returns (or raises) in the worker; the future is done
WorkerFinish(i) ==
    /\ pool = "alive"
    /\ i \in Running
    /\ futures' = [futures EXCEPT ![i].state = "finished",
                                  ![i].result = HashOf(prog, FullPath(futures[i]))]
    /\ UNCHANGED <<inputs, disk, run, pc, directories, pool, todo, hashes,
                   duplicates, stdout, exitStatus, yielded, consumed, old, prev>>

(***************************************************************************)
(* main and export_duplicates_to_json of find_duplicate_files.py.          *)
(***************************************************************************)
\* main(): if len(sys.argv) > 1: ... else: print("Please provide ...")
\* find_files_parallel.py: main calls print_duplicates and returns after either
\* branch; the other two scripts call export_duplicates_to_json and go on
Main ==
    /\ pc = "main"
    /\ IF Len(argv) > 0
       THEN /\ directories' = argv
            /\ pc' = IF prog = FFP THEN "scan" ELSE "export"
            /\ UNCHANGED stdout
       ELSE /\ stdout' = Append(stdout, [line |-> "usage", index |-> 0, path |-> <<>>])
            /\ pc' = IF prog = FFP THEN "exit" ELSE "main_end"
            /\ UNCHANGED directories
    /\ UNCHANGED <<inputs, disk, run, pool, todo, futures, hashes, duplicates,
                   exitStatus, yielded, consumed, old, prev>>

\* faulty variant: the old report is left in place
RemoveOld_Keep(d) == d

\* if os.path.exists(output_file): os.remove(output_file)
RemoveOld(d) == IF Exists(d) THEN Absent ELSE d

ExportRemove ==
    /\ pc = "export"
    /\ disk' = RemoveOld(disk)
    /\ pc' = "scan"
    /\ UNCHANGED <<inputs, run, directories, pool, todo, futures, hashes,
                   duplicates, stdout, exitStatus, yielded, consumed, old, prev>>

\* hashes = defaultdict(list); the generator is entered:
\* with concurrent.futures.ProcessPoolExecutor() as executor
ScanStart ==
    /\ pc = "scan"
    /\ prog # FF
    /\ pool' = "alive"
    /\ todo' = Enumerated(prog, directories)
    /\ pc' = "submit"
    /\ UNCHANGED <<inputs, disk, run, directories, futures, hashes, duplicates,
                   stdout, exitStatus, yielded, consumed, old, prev>>

\* executor.submit(calculate_hash, os.path.join(dirpath, filename)): (filename, dirpath)
NewFuture(t) ==
    [filename |-> t.filename, dirpath |-> t.dirpath, state |-> "pending", result |-> ResUnset]

Submit ==
    /\ pc = "submit"
    /\ pool = "alive"
    /\ todo # <<>>
    /\ futures' = Append(futures, NewFuture(Head(todo)))
    /\ todo' = Tail(todo)
    /\ UNCHANGED <<inputs, disk, run, pc, directories, pool, hashes, duplicates,
                   stdout, exitStatus, yielded, consumed, old, prev>>

\* the comprehension is exhausted: as_completed(future_to_file) is entered
SubmitEnd ==
    /\ pc = "submit"
    /\ todo = <<>>
    /\ pc' = "drain"
    /\ UNCHANGED <<inputs, disk, run, directories, pool, todo, futures, hashes,
                   duplicates, stdout, exitStatus, yielded, consumed, old, prev>>

\* as_completed hands out each future once, after it is done
Ready(i) == futures[i].state = "finished"

\* faulty variant: the loop stops at the first completed future
Exhausted_First == \E i \in 1..Len(futures) : futures[i].state = "consumed"

\* as_completed is exhausted when every future has been handed out
Exhausted == \A i \in 1..Len(futures) : futures[i].state = "consumed"

\* file_hash = future.result(); if file_hash is None: continue
\* ...; yield file_hash, full_path  ->  hashes[file_hash].append(full_path)
Consume(i) ==
    /\ pc = "drain"
    /\ i \in 1..Len(futures)
    /\ Ready(i)
    /\ ~Raises(futures[i].result)
    /\ futures' = [futures EXCEPT ![i].state = "consumed"]
    /\ consumed' = Append(consumed, i)
    /\ IF futures[i].result.kind = "None"
       THEN UNCHANGED <<yielded, hashes>>
       ELSE /\ yielded' = Append(yielded, [hash |-> futures[i].result,
                                           path |-> FullPath(futures[i])])
            /\ hashes' = HashesAppend(hashes, futures[i].result, FullPath(futures[i]))
    /\ UNCHANGED <<inputs, disk, run, pc, directories, pool, todo, duplicates,
                   stdout, exitStatus, old, prev>>

\* faulty variant: the executor is not used as a context manager, nothing
\* shuts it down
shutdown_Never(p) == p

\* executor.__exit__ -> executor.shutdown(wait=True)
shutdown(p) == "shutdown"

\* the loop ends, the with block shuts the executor down, the generator is exhausted
DrainEnd ==
    /\ pc = "drain"
    /\ Exhausted
    /\ pool' = shutdown(pool)
    /\ pc' = "collect"
    /\ UNCHANGED <<inputs, disk, run, directories, todo, futures, hashes,
                   duplicates, stdout, exitStatus, yielded, consumed, old, prev>>

\* get_file_metadata raises for a file of a group
MetadataRaises(dups) ==
    \E n \in DOMAIN dups : \E k \in DOMAIN dups[n] : dups[n][k].metadata = MetaRaise

\* duplicates = [...]; indexed_duplicates = {...}
Collect ==
    /\ pc = "collect"
    /\ prog # FFP
    /\ ~MetadataRaises(CollectGroups(hashes, 1))
    /\ duplicates' = CollectGroups(hashes, 1)
    /\ pc' = "open"
    /\ UNCHANGED <<inputs, disk, run, directories, pool, todo, futures, hashes,
                   stdout, exitStatus, yielded, consumed, old, prev>>

\* with open(output_file, 'w') as f: the file is created or truncated
Open ==
    /\ pc = "open"
    /\ disk' = [kind |-> "partial", writer |-> run, report |-> <<>>]
    /\ pc' = "dump"
    /\ UNCHANGED <<inputs, run, directories, pool, todo, futures, hashes,
                   duplicates, stdout, exitStatus, yielded, consumed, old, prev>>

\* faulty variant: without a group no file is left behind
json_dump_SkipEmpty(r, dups) ==
    IF dups = <<>> THEN Absent
    ELSE [kind |-> "complete", writer |-> r, report |-> Indexed(dups)]

\* json.dump(indexed_duplicates, f, ...) and the end of the with block: the
\* file of invocation r holds the whole mapping, "{}" when there is no group
json_dump(r, dups) == [kind |-> "complete", writer |-> r, report |-> Indexed(dups)]

\* json.dump(indexed_duplicates, f); the file is closed; print('Duplicates exported ...')
Dump ==
    /\ pc = "dump"
    /\ disk' = json_dump(run, duplicates)
    /\ stdout' = Append(stdout, [line |-> "exported", index |-> 0, path |-> <<>>])
    /\ pc' = "main_end"
    /\ UNCHANGED <<inputs, run, directories, pool, todo, futures, hashes,
                   duplicates, exitStatus, yielded, consumed, old, prev>>

\* find_duplicate_files.py: logger.info(f"... {directories} ..."); print(duration)
\* reading the unbound local raises UnboundLocalError: traceback, exit status 1
MainEnd ==
    /\ pc = "main_end"
    /\ prog = FDF
    /\ IF directories = Unbound
       THEN /\ exitStatus' = 1
            /\ UNCHANGED stdout
       ELSE /\ exitStatus' = 0
            /\ stdout' = Append(stdout, [line |-> "duration", index |-> 0, path |-> <<>>])
    /\ pc' = "exit"
    /\ UNCHANGED <<inputs, disk, run, directories, pool, todo, futures, hashes,
                   duplicates, yielded, consumed, old, prev>>

(***************************************************************************)
(* The script is run again on the same arguments and file system.          *)
(***************************************************************************)
Fingerprint(group) == HashOf(prog, group[1].path)
PathsOf(group) == {group[k].path : k \in DOMAIN group}

\* the (file_hash, full_path) pairs a scan yielded, as a multiset
YieldedBag == [y \in {yielded[k] : k \in DOMAIN yielded} |->
                  Cardinality({k \in DOMAIN yielded : yielded[k] = y})]

Reported(d) ==
    IF d.kind = "complete" /\ d.writer = run
    THEN [valid  |-> TRUE,
          labels |-> [n \in DOMAIN d.report |-> Fingerprint(d.report[n])],
          groups |-> {PathsOf(d.report[n]) : n \in DOMAIN d.report},
          yields |-> YieldedBag]
    ELSE [valid |-> FALSE, labels |-> <<>>, groups |-> {}, yields |-> <<>>]

Restart ==
    /\ pc = "exit"
    /\ run < MaxRuns
    /\ run' = run + 1
    /\ prev' = Reported(disk)
    /\ pc' = "main"
    /\ directories' = Unbound
    /\ pool' = "none"
    /\ todo' = <<>>
    /\ futures' = <<>>
    /\ hashes' = <<>>
    /\ duplicates' = <<>>
    /\ stdout' = <<>>
    /\ exitStatus' = 0
    /\ yielded' = <<>>
    /\ consumed' = <<>>
    /\ old' = Found(disk)
    /\ UNCHANGED <<inputs, disk>>

Next ==
    \/ Main
    \/ ExportRemove
    \/ ScanStart
    \/ Submit
    \/ SubmitEnd
    \/ WorkerStart
    \/ \E i \in 1..Len(futures) : WorkerFinish(i)
    \/ \E i \in 1..Len(futures) : Consume(i)
    \/ DrainEnd
    \/ Collect
    \/ Open
    \/ Dump
    \/ MainEnd
    \/ Restart

Spec == Init /\ [][Next]_vars

(***************************************************************************)
(* find_files_parallel.py: no try/except in calculate_hash, so a read      *)
(* error is re-raised by future.result() and leaves the generator.         *)
(***************************************************************************)
\* file_hash = future.result() raises: the for loop and the with block are left
ConsumeRaise(i) ==
    /\ pc = "drain"
    /\ i \in 1..Len(futures)
    /\ Ready(i)
    /\ Raises(futures[i].result)
    /\ futures' = [futures EXCEPT ![i].state = "consumed"]
    /\ consumed' = Append(consumed, i)
    /\ pc' = "unwind"
    /\ UNCHANGED <<inputs, disk, run, directories, pool, todo, hashes, duplicates,
                   stdout, exitStatus, yielded, old, prev>>

\* executor.__exit__: shutdown(wait=True) returns once every call has run;
\* the exception then ends the script with a traceback and exit status 1
Unwind ==
    /\ pc = "unwind"
    /\ Pending = {}
    /\ Running = {}
    /\ pool' = shutdown(pool)
    /\ pc' = "exit"
    /\ exitStatus' = 1
    /\ UNCHANGED <<inputs, disk, run, directories, todo, futures, hashes,
                   duplicates, stdout, yielded, consumed, old, prev>>

\* print_duplicates: if len(files) > 1
IsPrintedGroup(files) == Len(files) > 1

FileLines(files) == [k \in 1..Len(files) |-> [line |-> "file", index |-> 0, path |-> files[k]]]

\* index = 1; for files in hashes.values(): if len(files) > 1: print(...); index += 1
RECURSIVE PrintGroups(_, _, _)
PrintGroups(hs, i, index) ==
    IF i > Len(hs) THEN <<>>
    ELSE IF IsPrintedGroup(hs[i].files)
         THEN <<[line |-> "group", index |-> index, path |-> <<>>]>>
              \o FileLines(hs[i].files) \o PrintGroups(hs, i + 1, index + 1)
         ELSE PrintGroups(hs, i + 1, index)

PrintDuplicates ==
    /\ pc = "collect"
    /\ prog = FFP
    /\ stdout' = stdout \o PrintGroups(hashes, 1, 1)
    /\ pc' = "exit"
    /\ exitStatus' = 0
    /\ UNCHANGED <<inputs, disk, run, directories, pool, todo, futures, hashes,
                   duplicates, yielded, consumed, old, prev>>

(***************************************************************************)
(* find_files.py: the sequential scanner.                                  *)
(***************************************************************************)
\* find_duplicates(directories) is entered: the walk starts
SeqStart ==
    /\ pc = "scan"
    /\ prog = FF
    /\ todo' = Enumerated(prog, directories)
    /\ pc' = "seq"
    /\ UNCHANGED <<inputs, disk, run, directories, pool, futures, hashes,
                   duplicates, stdout, exitStatus, yielded, consumed, old, prev>>

\* file_hash = calculate_hash(full_path); yield file_hash, full_path
SeqStep ==
    /\ pc = "seq"
    /\ todo # <<>>
    /\ LET t == Head(todo)
           full_path == join(t.dirpath, t.filename)
           file_hash == HashOf(prog, full_path)
       IN  IF file_hash.kind = "raise"
           THEN /\ pc' = "exit"
                /\ exitStatus' = 1
                /\ UNCHANGED <<todo, yielded, hashes>>
           ELSE /\ todo' = Tail(todo)
                /\ yielded' = Append(yielded, [hash |-> file_hash, path |-> full_path])
                /\ hashes' = HashesAppend(hashes, file_hash, full_path)
                /\ UNCHANGED <<pc, exitStatus>>
    /\ UNCHANGED <<inputs, disk, run, directories, pool, futures, duplicates,
                   stdout, consumed, old, prev>>

SeqEnd ==
    /\ pc = "seq"
    /\ todo = <<>>
    /\ pc' = "collect"
    /\ UNCHANGED <<inputs, disk, run, directories, pool, todo, futures, hashes,
                   duplicates, stdout, exitStatus, yielded, consumed, old, prev>>

\* find_files.py: print(f"Runtime duration: ..."); main returns
MainEndFF ==
    /\ pc = "main_end"
    /\ prog = FF
    /\ stdout' = Append(stdout, [line |-> "duration", index |-> 0, path |-> <<>>])
    /\ exitStatus' = 0
    /\ pc' = "exit"
    /\ UNCHANGED <<inputs, disk, run, directories, pool, todo, futures, hashes,
                   duplicates, yielded, consumed, old, prev>>

\* the scripts without the exclusion enumerate all six files of A and B: they
\* are run on the argument lists of at most four files
InitAll ==
    /\ prog \in {FDF, FFP, FF}
    /\ argv \in IF prog = FDF THEN ArgChoices \cup {ScenarioArgs} ELSE ArgChoices
    /\ InitInputs
    /\ MetadataAvailable
    /\ InitRun

NextAll ==
    \/ Next
    \/ \E i \in 1..Len(futures) : ConsumeRaise(i)
    \/ Unwind
    \/ PrintDuplicates
    \/ SeqStart
    \/ SeqStep
    \/ SeqEnd
    \/ MainEndFF

SpecAll == InitAll /\ [][NextAll]_vars

(***************************************************************************)
(* Properties.                                                             *)
(***************************************************************************)
Range(f) == {f[k] : k \in DOMAIN f}
Count(seq, x) == Cardinality({k \in DOMAIN seq : seq[k] = x})
\* a sequence as a multiset: element -> number of occurrences
BagOf(seq) == [x \in Range(seq) |-> Count(seq, x)]

\* the generator of find_duplicates_parallel has ended normally
GeneratorExhausted ==
    \/ pc \in {"collect", "open", "dump"}
    \/ pc \in {"main_end", "exit"} /\ pool = "shutdown" /\ exitStatus = 0

\* this invocation has written its report completely
ReportWritten == disk.kind = "complete" /\ disk.writer = run

EnumeratedPaths == [k \in DOMAIN Enumerated(prog, argv) |->
                       join(Enumerated(prog, argv)[k].dirpath, Enumerated(prog, argv)[k].filename)]

Failures == {k \in DOMAIN consumed : futures[consumed[k]].result.kind = "None"}
Successes == {k \in DOMAIN consumed : futures[consumed[k]].result.kind = "digest"}

\* C1: once the generator of find_duplicates_parallel is exhausted, every
\* enumerated path has one future, that future holds one outcome of
\* calculate_hash (a digest or None), the loop has received it exactly once,
\* and successes plus failures equal the number of enumerated paths.
C1_OneResultPerPath ==
    GeneratorExhausted =>
        /\ Len(futures) = Len(EnumeratedPaths)
        /\ \A i \in 1..Len(futures) :
              /\ FullPath(futures[i]) = EnumeratedPaths[i]
              /\ futures[i].result.kind \in {"digest", "None"}
              /\ Count(consumed, i) = 1
        /\ Cardinality(Successes) + Cardinality(Failures) = Len(EnumeratedPaths)
        /\ Len(yielded) = Cardinality(Successes)

C1_Witness ==
    /\ GeneratorExhausted
    /\ Cardinality(Failures) = 1
    /\ Cardinality(Successes) >= 3
    /\ consumed[1] # 1

\* the groups a scan of the readable files alone has to report: the enumerated
\* readable paths with equal content, when there are at least two of them
ReadablePaths == SelectSeq(EnumeratedPaths, LAMBDA p : p \notin unreadable)
ExpectedGroups ==
    {BagOf(SelectSeq(ReadablePaths, LAMBDA p : content[p] = c)) : c \in
        {c \in Contents : Len(SelectSeq(ReadablePaths, LAMBDA p : content[p] = c)) >= 2}}

GroupPaths(group) == [k \in DOMAIN group |-> group[k].path]
ReportedGroups(report) == {BagOf(GroupPaths(report[n])) : n \in DOMAIN report}
ReportedPaths(report) == UNION {Range(GroupPaths(report[n])) : n \in DOMAIN report}

\* C2: a file that cannot be read makes calculate_hash return None and nothing
\* else: no error leaves a worker, the scan goes on and yields every readable
\* enumerated path, the report groups them as a scan without the unreadable
\* file would, and the unreadable path is in no group.
C2_ReadFailureIsolated ==
    /\ \A i \in 1..Len(futures) :
          futures[i].state \in {"finished", "consumed"} =>
              /\ futures[i].result.kind \in {"digest", "None"}
              /\ (futures[i].result.kind = "None") <=> (FullPath(futures[i]) \in unreadable)
    /\ GeneratorExhausted =>
          BagOf([k \in DOMAIN yielded |-> yielded[k].path]) = BagOf(ReadablePaths)
    /\ ReportWritten =>
          /\ ReportedGroups(disk.report) = ExpectedGroups
          /\ ReportedPaths(disk.report) \cap unreadable = {}

C2_Witness ==
    /\ ReportWritten
    /\ unreadable = {FileY}
    /\ argv = ScenarioArgs
    /\ \E n \in DOMAIN disk.report : Range(GroupPaths(disk.report[n])) = {FileX, FileZ}

\* what the scan found out about a path
Hashed(p) == \E k \in DOMAIN yielded : yielded[k].path = p
FingerprintOfPath(p) == yielded[CHOOSE k \in DOMAIN yielded : yielded[k].path = p].hash
SameFingerprint(p, q) ==
    Hashed(p) /\ Hashed(q) /\ FingerprintOfPath(p) = FingerprintOfPath(q)
SameGroup(p, q) ==
    \E n \in DOMAIN disk.report : {p, q} \subseteq Range(GroupPaths(disk.report[n]))

\* C3: in the written report two paths share a group exactly when both were
\* hashed and their fingerprints are equal, and a path is reported exactly
\* when another hashed path has its fingerprint; scanning A (x = y = "hello")
\* and B (z = "hello", w = "world") reports the one group {x, y, z}.
C3_GroupedIffSameFingerprint ==
    ReportWritten =>
        /\ \A p, q \in Files : p # q => (SameGroup(p, q) <=> SameFingerprint(p, q))
        /\ \A p \in Files :
              (p \in ReportedPaths(disk.report)) <=>
                  (\E q \in Files \ {p} : SameFingerprint(p, q))
        /\ ( /\ argv = ScenarioArgs
             /\ unreadable \cap {FileX, FileY, FileZ, FileW} = {}
             /\ content[FileY] = Str_hello
             /\ content[FileZ] = Str_hello
             /\ content[FileW] = Str_world )
           => ReportedGroups(disk.report) = {BagOf(<<FileX, FileY, FileZ>>)}

\* the same statement for argument lists that name no directory twice
C3_DistinctRoots ==
    (\A i, j \in DOMAIN argv : i # j => argv[i] # argv[j]) => C3_GroupedIffSameFingerprint

PrintedPaths == {stdout[k].path : k \in {k \in DOMAIN stdout : stdout[k].line = "file"}}
\* the groups have been written (export) or printed (print_duplicates)
GroupsOut == ReportWritten \/ (prog = FFP /\ pc = "exit" /\ pool = "shutdown" /\ exitStatus = 0)

\* C4: every group of the written report, and every group print_duplicates
\* prints, has at least 2 members; a fingerprint whose list in the result map
\* holds one path produces no group.
C4_GroupsHaveTwoMembers ==
    /\ \A n \in DOMAIN disk.report : Len(disk.report[n]) >= 2
    /\ \A n \in DOMAIN duplicates : Len(duplicates[n]) >= 2
    /\ \A k \in DOMAIN stdout :
          stdout[k].line = "group" =>
              /\ k + 2 <= Len(stdout)
              /\ stdout[k + 1].line = "file"
              /\ stdout[k + 2].line = "file"
    /\ GroupsOut =>
          \A i \in DOMAIN hashes :
              Len(hashes[i].files) = 1 =>
                  hashes[i].files[1] \notin ReportedPaths(disk.report) \cup PrintedPaths

C4_Witness ==
    /\ ReportWritten
    /\ disk.report # <<>>
    /\ \E i \in DOMAIN hashes : Len(hashes[i].files) = 1

\* C5: never more than max_workers calls of calculate_hash are executing.
C5_AtMostNRunning == Cardinality(Running) <= max_workers

C5_Witness ==
    /\ Cardinality(Running) = max_workers
    /\ Pending # {}
    /\ pc = "submit"

\* the groups, as sets of paths, that the yielded results determine whatever
\* their order: the paths of each fingerprint that was yielded at least twice
YieldsOf(h) == {k \in DOMAIN yielded : yielded[k].hash = h}
GroupsOfResults ==
    {{yielded[k].path : k \in YieldsOf(h)} :
        h \in {h \in {yielded[k].hash : k \in DOMAIN yielded} : Cardinality(YieldsOf(h)) >= 2}}

\* C6: the fold does not depend on the order of arrival: the reported groups,
\* as sets of paths, are determined by the multiset of yielded results, and a
\* second run over the same files reports the same set of groups.
C6_FoldOrderInsensitive ==
    ReportWritten =>
        /\ Reported(disk).groups = GroupsOfResults
        /\ prev.valid => Reported(disk).groups = prev.groups

\* two runs that completed in different orders (their labels differ)
C6_Witness ==
    /\ ReportWritten
    /\ prev.valid
    /\ prev.groups # {}
    /\ Reported(disk).labels # prev.labels

\* C7 as claimed: in two runs over the same files the label "Duplicate Group N"
\* is attached to the same fingerprint, for every N.
C7_StableLabels ==
    (ReportWritten /\ prev.valid) => Reported(disk).labels = prev.labels

FirstArrival(h) == CHOOSE k \in YieldsOf(h) : \A j \in YieldsOf(h) : k <= j

\* C7 as amended: the groups are labelled 1..k without a gap in the order in
\* which their fingerprints first arrived in the result stream; two runs over
\* the same files label the same set of fingerprints, with the same number of
\* labels.
C7_LabelsInArrivalOrder ==
    ReportWritten =>
        /\ DOMAIN disk.report = 1..Cardinality(GroupsOfResults)
        /\ \A m, n \in DOMAIN disk.report :
              m < n => FirstArrival(Fingerprint(disk.report[m]))
                          < FirstArrival(Fingerprint(disk.report[n]))
        /\ prev.valid =>
              /\ Range(Reported(disk).labels) = Range(prev.labels)
              /\ DOMAIN Reported(disk).labels = DOMAIN prev.labels

C7_Witness ==
    /\ ReportWritten
    /\ prev.valid
    /\ DOMAIN disk.report = 1..2
    /\ Fingerprint(disk.report[1]) = hexdigest(Str_world)
    /\ prev.labels[1] = hexdigest(Str_hello)

UsagePrinted == \E k \in DOMAIN stdout : stdout[k].line = "usage"

\* C9: without a directory argument the script scans nothing, writes no
\* report, leaves an existing one alone, prints a message and exits with a
\* non-zero status.
C9_UsageFailure ==
    (Len(argv) = 0 /\ pc = "exit") =>
        /\ pool = "none"
        /\ futures = <<>>
        /\ yielded = <<>>
        /\ Found(disk) = old
        /\ UsagePrinted
        /\ exitStatus # 0

\* a file path with a directory on it whose path contains "Cache"
InExcludedTree(path) ==
    \E k \in 1..(Len(path) - 1) :
        path[k + 1] = Sep /\ StrIn(Str_Cache, SubSeq(path, 1, k))

\* C10: no file in or below a directory whose path contains "Cache" is
\* enumerated, submitted, yielded or reported.
C10_ExcludedContributeNothing ==
    /\ \A k \in DOMAIN todo : ~InExcludedTree(join(todo[k].dirpath, todo[k].filename))
    /\ \A i \in DOMAIN futures : ~InExcludedTree(FullPath(futures[i]))
    /\ \A k \in DOMAIN yielded : ~InExcludedTree(yielded[k].path)
    /\ \A p \in ReportedPaths(disk.report) : ~InExcludedTree(p)

\* directory A was scanned: A/Cache and A/Cache/s were walked, only x and y submitted
C10_Witness ==
    /\ argv = <<DirA>>
    /\ ReportWritten
    /\ Len(futures) = 2
    /\ InExcludedTree(FileC)
    /\ InExcludedTree(FileD)

(***************************************************************************)
(* Metadata lookups that fail: the owner lookup, and the size and time     *)
(* lookups for a file that was deleted after it had been hashed.           *)
(***************************************************************************)
\* metadata = get_file_metadata(file) raises: the exception leaves
\* export_duplicates_to_json and main; traceback, exit status 1
CollectRaise ==
    /\ pc = "collect"
    /\ prog # FFP
    /\ MetadataRaises(CollectGroups(hashes, 1))
    /\ pc' = "exit"
    /\ exitStatus' = 1
    /\ UNCHANGED <<inputs, disk, run, directories, pool, todo, futures, hashes,
                   duplicates, stdout, yielded, consumed, old, prev>>

\* every file can be read; the files whose lookups may fail are members of
\* the groups that scanning A, or B twice, reports
InitMeta ==
    /\ prog = FDF
    /\ argv \in {<<DirA>>, <<DirB, DirB>>}
    /\ content \in FileSystems
    /\ unreadable = {}
    /\ disk \in {Absent, Stale}
    /\ InitRun
    /\ ownerFails \in SUBSET {FileX, FileW}
    /\ statFails \in {{}, {FileY}, {FileW}}

NextMeta ==
    \/ Next
    \/ CollectRaise

SpecMeta == InitMeta /\ [][NextMeta]_vars

\* the metadata of the reported entries of a path
MetadataOf(p) ==
    UNION {{disk.report[n][k].metadata :
                k \in {j \in DOMAIN disk.report[n] : disk.report[n][j].path = p}} :
           n \in DOMAIN disk.report}

\* export_duplicates_to_json has returned or was left by an exception
ExportLeft == pc \in {"main_end", "exit"} /\ directories # Unbound

\* C11: an owner lookup that fails gives the placeholder with the reason as
\* FileOwner and does not abort the enrichment: the size and both timestamps
\* of that file are returned, the file stays in its group, and unless a size
\* or time lookup fails the export ends with the report of all groups, every
\* entry enriched.
C11_OwnerFailureDegrades ==
    /\ ReportWritten =>
          /\ ReportedGroups(disk.report) = ExpectedGroups
          /\ \A p \in ReportedPaths(disk.report) : \A md \in MetadataOf(p) :
                /\ md.Length_MB = Length_MB(Len(content[p]))
                /\ md.LastWriteTime = "mtime"
                /\ md.CreationTime = "ctime"
                /\ (p \in ownerFails) <=>
                      (md.FileOwner = OwnerNotAvailable(LookupAccountSid(p).value))
                /\ (p \notin ownerFails) <=> (md.FileOwner = <<"DOMAIN", "\\", "name">>)
    /\ (ExportLeft /\ statFails \cap Range(EnumeratedPaths) = {}) => ReportWritten

\* A/x has no owner information, A/y has: both are in the written group
C11_Witness ==
    /\ ReportWritten
    /\ FileX \in ownerFails
    /\ \E n \in DOMAIN disk.report :
          /\ GroupPaths(disk.report[n]) = <<FileX, FileY>>
          /\ disk.report[n][1].metadata.FileOwner =
                <<"Owner Info Not Available: ", "pywintypes.error">>
          /\ disk.report[n][2].metadata.FileOwner = <<"DOMAIN", "\\", "name">>

\* C12: a size or time lookup that fails for a file of a group is recovered
\* with a placeholder: the export still ends with the written report, the
\* file is in its group and the other files are enriched.
C12_MetadataErrorRecovered ==
    ExportLeft =>
        /\ ReportWritten
        /\ ReportedGroups(disk.report) = ExpectedGroups

(***************************************************************************)
(* A worker process dies while it hashes (killed, out of memory).          *)
(***************************************************************************)
\* the executor's manager thread finds the process gone: the pool is marked
\* broken, every call that has not completed (running or queued) gets
\* BrokenProcessPool as its exception, the other workers are terminated
WorkerDie(i) ==
    /\ pool = "alive"
    /\ i \in Running
    /\ pool' = "broken"
    /\ futures' = [j \in DOMAIN futures |->
                      IF futures[j].state \in {"pending", "running"}
                      THEN [futures[j] EXCEPT !.state = "finished", !.result = ResBroken]
                      ELSE futures[j]]
    /\ UNCHANGED <<inputs, disk, run, pc, directories, todo, hashes, duplicates,
                   stdout, exitStatus, yielded, consumed, old, prev>>

\* executor.submit on a broken pool raises BrokenProcessPool: the
\* comprehension and the with block are left
SubmitBroken ==
    /\ pc = "submit"
    /\ pool = "broken"
    /\ todo # <<>>
    /\ pc' = "unwind"
    /\ UNCHANGED <<inputs, disk, run, directories, pool, todo, futures, hashes,
                   duplicates, stdout, exitStatus, yielded, consumed, old, prev>>

InitCrash ==
    /\ prog = FDF
    /\ argv \in {<<DirA>>, <<DirB, DirB>>}
    /\ InitInputs
    /\ MetadataAvailable
    /\ InitRun

NextCrash ==
    \/ Next
    \/ \E i \in 1..Len(futures) : WorkerDie(i)
    \/ SubmitBroken
    \/ \E i \in 1..Len(futures) : ConsumeRaise(i)
    \/ Unwind

SpecCrash == InitCrash /\ [][NextCrash]_vars

\* the generator of find_duplicates_parallel was entered and has been left,
\* by exhaustion or by an exception
GeneratorLeft == pool = "shutdown"

\* the submitted calls whose outcome the as_completed loop did not receive
Undelivered ==
    {i \in DOMAIN futures :
        ~(Count(consumed, i) = 1 /\ futures[i].result.kind \in {"digest", "None"})}

\* C15: a partial failure of the pool (a worker process that dies while
\* hashing) costs at most the path that worker was hashing: when the
\* generator has ended, every other submitted path has delivered one result
\* to the consuming loop.
C15_OthersDelivered ==
    GeneratorLeft => Cardinality(Undelivered) <= 1

\* C13: every reported group consists of at least two pairwise distinct
\* paths, whatever the list of roots: no path occurs twice in a group.
C13_GroupsOfDistinctPaths ==
    \A n \in DOMAIN disk.report :
        /\ \A j, k \in DOMAIN disk.report[n] :
              j # k => disk.report[n][j].path # disk.report[n][k].path
        /\ Cardinality(Range(GroupPaths(disk.report[n]))) >= 2

(***************************************************************************)
(* Termination: the main thread and the workers keep being scheduled.      *)
(***************************************************************************)
SpecFair == Spec /\ WF_vars(Next)

\* the roots are directories and no regular file is below them
NoRegularFiles ==
    /\ Len(argv) > 0
    /\ \A k \in DOMAIN argv : argv[k] \in Dirs
    /\ \A k \in DOMAIN walkAll(argv, 1) : walkAll(argv, 1)[k].filenames = <<>>

\* the mapping json.dump writes for no group: {}
EmptyMapping == [n \in {} |-> <<>>]

\* C14: when the roots hold no regular file, nothing is submitted, the export
\* ends, and it ends with zero groups and a written report that is the empty
\* mapping.
C14_EmptyTreeEmptyReport ==
    /\ [](NoRegularFiles =>
            /\ futures = <<>>
            /\ duplicates = <<>>
            /\ ExportLeft => (ReportWritten /\ disk.report = EmptyMapping /\ pc # "unwind"))
    /\ (NoRegularFiles /\ pc = "export") ~> (ExportLeft /\ ReportWritten)

\* E was scanned while an older report was there; the new report is {}
C14_Witness ==
    /\ argv = <<DirE>>
    /\ old.kind = "complete"
    /\ ExportLeft
    /\ ReportWritten
    /\ disk.report = EmptyMapping
    /\ pool = "shutdown"

\* the paths of the groups a scan of the readable files has to report
ExpectedPaths == UNION {DOMAIN g : g \in ExpectedGroups}

\* C16: in find_files_parallel.py and find_files.py a file that cannot be
\* read costs only its own path: the scan ends normally, every readable
\* enumerated path is yielded, and print_duplicates / the export put out the
\* groups of the readable files.
C16_ReadErrorsAbsorbed ==
    (prog \in {FFP, FF} /\ pc = "exit" /\ Len(argv) > 0) =>
        /\ exitStatus = 0
        /\ BagOf([k \in DOMAIN yielded |-> yielded[k].path]) = BagOf(ReadablePaths)
        /\ prog = FF => (ReportWritten /\ ReportedGroups(disk.report) = ExpectedGroups)
        /\ prog = FFP => PrintedPaths = ExpectedPaths

(***************************************************************************)
(* The session is aborted: SIGINT raises KeyboardInterrupt in the main     *)
(* thread while export_duplicates_to_json (or, in find_files_parallel.py,  *)
(* the scan) is active. Nothing in the scripts catches it.                 *)
(***************************************************************************)
\* the exit status of a script that KeyboardInterrupt ended
SIGINT_Status == 130

\* inside the with block of find_duplicates_parallel the exception first runs
\* executor.__exit__; elsewhere it leaves main at once. A file that was opened
\* for writing is closed as it is.
Interrupt ==
    /\ pc \in {"export", "scan", "submit", "drain", "collect", "open", "dump"}
    /\ IF pc \in {"submit", "drain"}
       THEN /\ pc' = "aborting"
            /\ UNCHANGED exitStatus
       ELSE /\ pc' = "exit"
            /\ exitStatus' = SIGINT_Status
    /\ UNCHANGED <<inputs, disk, run, directories, pool, todo, futures, hashes,
                   duplicates, stdout, yielded, consumed, old, prev>>

\* the interrupt reaches a worker process as well (Ctrl-C signals the whole
\* process group): the worker dies, the pool is broken
WorkerInterrupted(i) ==
    /\ pc = "aborting"
    /\ WorkerDie(i)

\* executor.__exit__: shutdown(wait=True) returns once no call is queued or
\* running; KeyboardInterrupt then ends the script
AbortUnwind ==
    /\ pc = "aborting"
    /\ Pending = {}
    /\ Running = {}
    /\ pool' = shutdown(pool)
    /\ pc' = "exit"
    /\ exitStatus' = SIGINT_Status
    /\ UNCHANGED <<inputs, disk, run, directories, todo, futures, hashes,
                   duplicates, stdout, yielded, consumed, old, prev>>

InitAbort ==
    /\ prog \in {FDF, FFP}
    /\ argv \in {<<DirA>>, <<DirB, DirB>>}
    /\ InitInputs
    /\ MetadataAvailable
    /\ InitRun

NextAbort ==
    \/ Next
    \/ \E i \in 1..Len(futures) : ConsumeRaise(i)
    \/ Unwind
    \/ PrintDuplicates
    \/ Interrupt
    \/ \E i \in 1..Len(futures) : WorkerInterrupted(i)
    \/ AbortUnwind

SpecAbort == InitAbort /\ [][NextAbort]_vars

\* this invocation was aborted
Aborted == pc = "aborting" \/ (pc = "exit" /\ exitStatus = SIGINT_Status)

\* C17: after an abort at any point before the export returns no further
\* task is submitted, the results already folded into the map are not
\* altered, and no partial report exists at the output location.
C17_AbortLeavesNoPartialReport ==
    /\ [][(Aborted /\ Aborted') => (Len(futures') = Len(futures) /\ hashes' = hashes)]_vars
    /\ [](Aborted => disk.kind # "partial")

\* the generator of find_duplicates_parallel was entered and control is back
\* with its consumer, or the script has ended
GeneratorFinished ==
    /\ pool # "none"
    /\ pc \in {"collect", "open", "dump", "main_end", "exit"}

\* C18: whenever the generator has finished (exhausted, left by the
\* exception of future.result(), or closed because its consumer was
\* interrupted) the executor has been shut down, no call is running and none
\* is queued.
C18_PoolReleased ==
    GeneratorFinished =>
        /\ pool = "shutdown"
        /\ Running = {}
        /\ Pending = {}

\* find_files_parallel.py left the generator by the exception of an
\* unreadable file while other calls had been submitted
C18_Witness ==
    /\ prog = FFP
    /\ GeneratorFinished
    /\ exitStatus = 1
    /\ Len(futures) >= 2
    /\ pool = "shutdown"
    /\ \E i \in DOMAIN futures : Count(consumed, i) = 0

\* the directories os.walk has listed when the comprehension has ended: one
\* triple per directory it visited
Listed ==
    IF pool = "none" \/ pc = "submit" THEN {}
    ELSE {walkAll(directories, 1)[k].dirpath : k \in DOMAIN walkAll(directories, 1)}

\* C19: excluded subtrees are pruned: when no root is itself excluded, the
\* walk lists no directory whose path contains "Cache" and no directory
\* below such a directory.
C19_ExcludedPruned ==
    (prog = FDF /\ \A k \in DOMAIN argv : NotCache(argv[k])) =>
        \A d \in Listed : NotCache(d) /\ ~InExcludedTree(d)

(***************************************************************************)
(* The sequential and the parallel scanner, run one after the other on the *)
(* same roots and the same file system, every file readable.               *)
(***************************************************************************)
OtherScanner(p) == IF p = FF THEN FFP ELSE FF

\* the groups a scanner's consumer takes from the map: the lists of more
\* than one path, as sets of paths
GroupsFound ==
    {Range(hashes[i].files) :
        i \in {i \in DOMAIN hashes :
                  IF prog = FFP THEN IsPrintedGroup(hashes[i].files)
                  ELSE IsGroup(hashes[i].files)}}

\* the scan of this invocation ended and its consumer has its results
ScanDone ==
    /\ Len(argv) > 0
    /\ pc \in {"collect", "open", "dump", "main_end", "exit"}

\* the other script is run next; prev keeps what this one yielded and grouped
RestartOther ==
    /\ pc = "exit"
    /\ run < MaxRuns
    /\ run' = run + 1
    /\ prog' = OtherScanner(prog)
    /\ prev' = [valid  |-> ScanDone /\ exitStatus = 0,
                labels |-> <<>>,
                groups |-> GroupsFound,
                yields |-> YieldedBag]
    /\ pc' = "main"
    /\ directories' = Unbound
    /\ pool' = "none"
    /\ todo' = <<>>
    /\ futures' = <<>>
    /\ hashes' = <<>>
    /\ duplicates' = <<>>
    /\ stdout' = <<>>
    /\ exitStatus' = 0
    /\ yielded' = <<>>
    /\ consumed' = <<>>
    /\ old' = Found(disk)
    /\ UNCHANGED <<argv, content, unreadable, ownerFails, statFails, disk>>

InitPair ==
    /\ prog \in {FF, FFP}
    /\ argv \in ArgChoices
    /\ content \in FileSystems
    /\ unreadable = {}
    /\ disk \in {Absent, Stale}
    /\ MetadataAvailable
    /\ InitRun

NextPair ==
    \/ Main
    \/ ExportRemove
    \/ ScanStart
    \/ Submit
    \/ SubmitEnd
    \/ WorkerStart
    \/ \E i \in 1..Len(futures) : WorkerFinish(i)
    \/ \E i \in 1..Len(futures) : Consume(i)
    \/ DrainEnd
    \/ PrintDuplicates
    \/ SeqStart
    \/ SeqStep
    \/ SeqEnd
    \/ Collect
    \/ Open
    \/ Dump
    \/ MainEndFF
    \/ RestartOther

SpecPair == InitPair /\ [][NextPair]_vars

\* C20: on the same roots and file system, every file readable, the scan of
\* find_files.py and the scan of find_files_parallel.py yield the same
\* multiset of (fingerprint, path) pairs, whatever the order of completion,
\* and give the same set of groups as sets of paths.
C20_SameYieldsSameGroups ==
    (ScanDone /\ prev.valid) =>
        /\ YieldedBag = prev.yields
        /\ GroupsFound = prev.groups

\* the parallel scan ran after the sequential one, completed in another
\* order than the enumeration, and found a group
C20_Witness ==
    /\ prog = FFP
    /\ ScanDone
    /\ prev.valid
    /\ prev.groups # {}
    /\ Len(yielded) = 4
    /\ yielded[1].path # EnumeratedPaths[1]

====
